---------------------------- MODULE Spec2Model ----------------------------
(***************************************************************************)
(* A model of nanoget (src/nanoget/nanoget.py): the batch entry point      *)
(* get_input with its worker pool and combine_dfs, the fastq extractors    *)
(* (process_fastq_plain, process_fastq_rich), the alignment extractor      *)
(* (process_bam, extract_from_bam, get_pID) and the streaming generator    *)
(* stream_fastq_full.                                                      *)
(*                                                                         *)
(* Five specifications share the module, one per entry point:              *)
(*   Spec        get_input over a list of rich fastq files                 *)
(*   SpecFastq   process_fastq_plain / process_fastq_rich, record by record*)
(*   SpecBam     process_bam over the contigs of one alignment file        *)
(*   SpecStream  stream_fastq_full and its consumer                        *)
(*   SpecPID     get_pID on one alignment record, by the tag and by MD/CIGAR*)
(* Each keeps the variables of the other four at their idle values.        *)
(***************************************************************************)
EXTENDS Integers, Sequences, FiniteSets, TLC

VARIABLES
    \* ---- get_input (Spec) ----
    files,        \* the file list: a sequence of files, each a sequence of records
    combine,      \* "simple" | "track"
    names,        \* NamesNone, or NamesList(the sequence of dataset names)
    status,       \* per file: the state of its future, "queued" | "done" | "failed"
    result,       \* per file: what the future holds (a DataFrame or an exception)
    dfs,          \* the list get_input's list comprehension has built so far
    pc,           \* "collect" | "returned" | "failed" | "idle"
    datadf,       \* the table get_input returned, NoTable before and on failure
    \* ---- process_fastq_plain / process_fastq_rich (SpecFastq) ----
    extractor,    \* "plain" | "rich" | "idle"
    fastq,        \* the records of the one file being read
    pos,          \* how many records the loop has consumed
    lists,        \* the per-column lists of process_fastq_rich
    output,       \* the list 'output' of process_fastq_plain
    fpc,          \* "loop" | "returned" | "aborted" | "idle"
    fexc,         \* the exception that ended the call, "none" otherwise
    fdf,          \* the DataFrame returned, NoTable otherwise
    \* ---- process_bam (SpecBam) ----
    bam,          \* the alignment file: per contig, the reads placed on it
    bstatus,      \* per contig: the state of its future, "queued" | "done" | "failed"
    bresult,      \* per contig: what the future holds
    boutput,      \* the list 'output' of process_bam, as built so far
    bpc,          \* "check" | "collect" | "returned" | "failed" | "idle"
    bexc,         \* the exception that ended the call, "none" otherwise
    bdf,          \* the DataFrame returned, NoTable otherwise
    \* ---- stream_fastq_full (SpecStream) ----
    srecords,     \* the records of the file, in file order
    sthreads,     \* the threads argument, the pool's max_workers
    sstatus,      \* per record: its future, "unsubmitted" | "queued" | "done" | "yielded"
    sresult,      \* per record: what the future holds
    yielded,      \* what the generator has yielded so far, in the order yielded
    spc,          \* "start" | "yield" | "done" | "idle"
    \* ---- get_pID (SpecPID) ----
    pread,        \* the alignment record get_pID is called on
    pidTag,       \* what get_pID gives for the record with its NM tag
    pidDerived    \* what get_pID gives for the record without its NM tag

bamVars   == <<bam, bstatus, bresult, boutput, bpc, bexc, bdf>>
streamVars == <<srecords, sthreads, sstatus, sresult, yielded, spc>>
pidVars   == <<pread, pidTag, pidDerived>>
getVars   == <<files, combine, names, status, result, dfs, pc, datadf>>
fastqVars == <<extractor, fastq, pos, lists, output, fpc, fexc, fdf>>
vars      == <<getVars, fastqVars, bamVars, streamVars, pidVars>>

-----------------------------------------------------------------------------
(* Bounds of the model.                                                    *)
MaxFiles  == 3     \* files in one get_input call
MaxRecs   == 2     \* records over all the files of one get_input call
MaxTime   == 1     \* start_time values are 0..MaxTime (seconds)
MaxFqRecs == 2     \* records of the file read by SpecFastq
MaxSeqLen == 1     \* sequence length of a fastq record
MaxContigs == 2    \* reference contigs of the alignment file
MaxReads  == 2     \* reads over all the contigs of the alignment file
MaxStreamRecs == 3 \* records of the file read by stream_fastq_full
MaxThreads == 2    \* the threads argument of stream_fastq_full is 1..MaxThreads
MaxRuns   == 4     \* runs of alignment columns of the record given to get_pID
LongRun   == 11    \* a run of columns is 1 or LongRun columns long

(* Program constants.                                                      *)
DefaultThreads == 4    \* get_input(..., threads=4, ...)

\* No DataFrame: what a call that failed, or has not returned yet, has produced.
NoTable == [table |-> FALSE]

Min(S) == CHOOSE m \in S : \A x \in S : m <= x
MinOf(a, b) == IF a <= b THEN a ELSE b
Range(s) == {s[i] : i \in DOMAIN s}

RECURSIVE Flatten(_)
Flatten(ss) == IF ss = <<>> THEN <<>> ELSE Head(ss) \o Flatten(Tail(ss))

SeqsUpTo(S, n) == UNION {[1..k -> S] : k \in 0..n}

-----------------------------------------------------------------------------
(* Fastq records.  A record is its sequence length and its description      *)
(* line; the description is the list info.split(' '): the read id followed  *)
(* by the fields, each field the list field.split('=').                     *)

PhredQ == 10
\* rec.letter_annotations["phred_quality"]: one score per base
phred_quality(rec) == [i \in 1..rec.len |-> PhredQ]

\* nanomath.aveQual divides by the number of scores: ZeroDivisionError on none.
aveQualRaises(quals) == Len(quals) = 0
\* nanomath.aveQual on one score or more (every base of a record has the score
\* PhredQ here, and the mean of equal scores is that score).
aveQual(quals) == quals[1]

Field(key, value) == <<key, value>>
Description(fields) == <<<<"readid">>>> \o fields

\* info_to_dict: {field.split('=')[0]: field.split('=')[1] for field in info.split(' ')[1:]}
\* A field without '=' has no [1]: IndexError.  A later field overrides an earlier
\* one of the same key.
info_to_dictRaises(info) ==
    \E i \in DOMAIN Tail(info) : Len(Tail(info)[i]) < 2
info_to_dict(info) ==
    LET fields == Tail(info)
        last(k) == CHOOSE i \in DOMAIN fields :
                      /\ fields[i][1] = k
                      /\ \A j \in DOMAIN fields : fields[j][1] = k => j <= i
    IN [k \in {fields[i][1] : i \in DOMAIN fields} |-> fields[last(k)][2]]

EmptyLists == [lengths |-> <<>>, quals |-> <<>>, channels |-> <<>>,
               time_stamps |-> <<>>, runids |-> <<>>]

\* The body of the try block of process_fastq_rich for one record: the lists as
\* the statements leave them, and the exception that ended the block.
RichTry(record, L) ==
    LET q  == aveQual(phred_quality(record))
        L1 == [L EXCEPT !.quals = Append(@, q), !.lengths = Append(@, record.len)]
        read_info == info_to_dict(record.desc)
        L2 == [L1 EXCEPT !.channels = Append(@, read_info["ch"])]
        L3 == [L2 EXCEPT !.time_stamps = Append(@, read_info["start_time"])]
        L4 == [L3 EXCEPT !.runids = Append(@, read_info["runid"])]
    IN IF aveQualRaises(phred_quality(record))
       THEN [lists |-> L, exc |-> "ZeroDivisionError"]
       ELSE IF info_to_dictRaises(record.desc) THEN [lists |-> L1, exc |-> "IndexError"]
       ELSE IF "ch" \notin DOMAIN read_info THEN [lists |-> L1, exc |-> "KeyError"]
       ELSE IF "start_time" \notin DOMAIN read_info THEN [lists |-> L2, exc |-> "KeyError"]
       ELSE IF "runid" \notin DOMAIN read_info THEN [lists |-> L3, exc |-> "KeyError"]
       ELSE [lists |-> L4, exc |-> "none"]

\* The except clauses passing over KeyError as they do ZeroDivisionError
RichHandled_also_KeyError(exc) == exc \in {"ZeroDivisionError", "KeyError"}

\* The except clauses of that try block: ZeroDivisionError is passed over,
\* KeyError ends the process (sys.exit), anything else is not caught.
RichHandled(exc) == exc = "ZeroDivisionError"

RichColumns == {"lengths", "quals", "channelIDs", "runIDs", "timestamp"}

\* pd.DataFrame(data={...}) of process_fastq_rich
RichDataFrame(L) ==
    [table   |-> TRUE,
     columns |-> RichColumns,
     rows    |-> [i \in 1..Len(L.lengths) |->
                    [lengths    |-> L.lengths[i],
                     quals      |-> L.quals[i],
                     channelIDs |-> L.channels[i],
                     runIDs     |-> L.runids[i],
                     timestamp  |-> L.time_stamps[i]]]]

\* process_fastq_rich as a function of the file: the loop over the records from
\* record k on, then the DataFrame; an exception is the result when one escapes.
\* What leaves the loop for an exception the try block did not pass over:
\* the KeyError clause calls sys.exit, anything else propagates as it is.
RichRaised(exc) == IF exc = "KeyError" THEN "SystemExit" ELSE exc

RECURSIVE RichLoop(_, _, _)
RichLoop(file, k, L) ==
    IF k > Len(file) THEN [exc |-> "none", df |-> RichDataFrame(L)]
    ELSE LET r == RichTry(file[k], L)
         IN IF r.exc = "none" \/ RichHandled(r.exc)
            THEN RichLoop(file, k + 1, r.lists)
            ELSE [exc |-> RichRaised(r.exc), df |-> NoTable]

process_fastq_rich(file) == RichLoop(file, 1, EmptyLists)

-----------------------------------------------------------------------------
(* get_input: the inputs.                                                  *)

Times == 0..MaxTime

FullDescription(t) ==
    Description(<<Field("runid", "r"), Field("ch", 7), Field("start_time", t)>>)
\* A description without the channel field
NoChDescription(t) ==
    Description(<<Field("runid", "r"), Field("start_time", t)>>)

\* The records of the files handed to get_input: of length zero, of length one
\* with each start time, and of length one without its channel field.
GetRecords ==
    {[len |-> 0, desc |-> FullDescription(0)]}
      \cup {[len |-> 1, desc |-> FullDescription(t)] : t \in Times}
      \cup {[len |-> 1, desc |-> NoChDescription(0)]}

\* The lists of at most maxParts parts (files, contigs) that hold at most
\* maxRecs records of Records between them: the records of 'all', cut at 'cut'.
Partition(k, all, cut) ==
    [i \in 1..k |->
        SubSeq(all, (IF i = 1 THEN 0 ELSE cut[i - 1]) + 1,
                    IF i = k THEN Len(all) ELSE cut[i])]
Partitions(Records, maxParts, maxRecs) ==
    {Partition(x[1], x[2], x[3]) :
        x \in {y \in UNION {{<<k, all, cut>> : cut \in [1..(k - 1) -> 0..Len(all)]} :
                              <<k, all>> \in (1..maxParts) \X SeqsUpTo(Records, maxRecs)} :
                 \A i \in 1..(y[1] - 2) : y[3][i] <= y[3][i + 1]}}

\* The file lists handed to get_input
FileLists(maxFiles, maxRecs) == Partitions(GetRecords, maxFiles, maxRecs)

\* files is a list of paths, names a list of strings or None
Path(i) == <<"path", i>>
DatasetName(i) == <<"name", i>>
NamesNone == [isNone |-> TRUE]
NamesList(l) == [isNone |-> FALSE, list |-> l]
NamesChoices(k) ==
    {NamesNone} \cup {NamesList([i \in 1..n |-> DatasetName(i)]) : n \in 1..(k + 1)}

-----------------------------------------------------------------------------
(* get_input: the code.                                                    *)

\* filethreads = min(len(files), threads), the pool's max_workers
filethreads == MinOf(Len(files), DefaultThreads)

\* names=names or files: None and the empty list both give the file paths
NamesOrFiles ==
    IF names.isNone \/ names.list = <<>>
    THEN [i \in 1..Len(files) |-> Path(i)]
    ELSE names.list

AddColumn(row, col, val) ==
    [c \in DOMAIN row \cup {col} |-> IF c = col THEN val ELSE row[c]]
DropColumn(row, col) == [c \in DOMAIN row \ {col} |-> row[c]]

\* df["dataset"] = identifier
SetDataset(df, identifier) ==
    [df EXCEPT !.columns = @ \cup {"dataset"},
               !.rows = [i \in DOMAIN df.rows |-> AddColumn(df.rows[i], "dataset", identifier)]]

\* pd.concat(dfs, ignore_index=True)
Concat(tables) ==
    [table   |-> TRUE,
     columns |-> UNION {tables[i].columns : i \in DOMAIN tables},
     rows    |-> Flatten([i \in DOMAIN tables |-> tables[i].rows])]

\* zip(dfs, names) stops at the shorter of the two
ZipLen(a, b) == MinOf(Len(a), Len(b))

\* combine_dfs with the loop tagging every table with the first identifier
combine_dfs_first_name(tables, identifiers, method) ==
    IF method = "track"
    THEN Concat([i \in 1..ZipLen(tables, identifiers) |-> SetDataset(tables[i], identifiers[1])])
    ELSE Concat(tables)

combine_dfs(tables, identifiers, method) ==
    IF method = "track"
    THEN Concat([i \in 1..ZipLen(tables, identifiers) |-> SetDataset(tables[i], identifiers[i])])
    ELSE Concat(tables)

\* datadf["start_time"] = datadf["time_arr"] - datadf["time_arr"].min(), then
\* datadf.drop(["timestamp", "time_arr"]): one minimum over the whole table.
StartTime(df) ==
    IF "timestamp" \in df.columns
    THEN LET tmin == Min({df.rows[i].timestamp : i \in DOMAIN df.rows})
         IN [df EXCEPT
               !.columns = (@ \cup {"start_time"}) \ {"timestamp"},
               !.rows = [i \in DOMAIN df.rows |->
                           DropColumn(AddColumn(df.rows[i], "start_time",
                                                df.rows[i].timestamp - tmin),
                                      "timestamp")]]
    ELSE df

\* The rows of a worker's DataFrame, each marked with the index of the file it
\* was read from.  'src' is a history field: no column of the table, it only
\* lets a property name the file a row came from.
MarkSource(r, i) ==
    IF r.exc = "none"
    THEN [r EXCEPT !.df.rows = [j \in DOMAIN r.df.rows |-> AddColumn(r.df.rows[j], "src", i)]]
    ELSE r

NoResult == [exc |-> "pending"]

GetIdle ==
    /\ files = <<>> /\ combine = "simple" /\ names = NamesNone /\ status = <<>>
    /\ result = <<>> /\ dfs = <<>> /\ pc = "idle" /\ datadf = NoTable

NoRead == [cigartuples |-> <<>>]
NotCalled == [exc |-> "pending"]
PidIdle == pread = NoRead /\ pidTag = NotCalled /\ pidDerived = NotCalled

StreamIdle ==
    /\ srecords = <<>> /\ sthreads = 0 /\ sstatus = <<>> /\ sresult = <<>>
    /\ yielded = <<>> /\ spc = "idle"

BamIdle ==
    /\ bam = <<>> /\ bstatus = <<>> /\ bresult = <<>> /\ boutput = <<>>
    /\ bpc = "idle" /\ bexc = "none" /\ bdf = NoTable

FastqIdle ==
    /\ extractor = "idle" /\ fastq = <<>> /\ pos = 0 /\ lists = EmptyLists
    /\ output = <<>> /\ fpc = "idle" /\ fexc = "none" /\ fdf = NoTable

Init ==
    /\ files \in FileLists(MaxFiles, MaxRecs)
    /\ \E c \in {"simple", "track"} :
         /\ combine = c
         /\ names \in IF c = "track" THEN NamesChoices(Len(files)) ELSE {NamesNone}
    /\ status = [i \in 1..Len(files) |-> "queued"]
    /\ result = [i \in 1..Len(files) |-> NoResult]
    /\ dfs = <<>>
    /\ pc = "collect"
    /\ datadf = NoTable
    /\ FastqIdle
    /\ BamIdle
    /\ StreamIdle
    /\ PidIdle

\* A worker of the pool runs proc_functions[source] on file i.  The pool takes
\* the files in order, filethreads at a time.
RunWorker(i) ==
    /\ pc = "collect"
    /\ status[i] = "queued"
    /\ Cardinality({j \in 1..(i - 1) : status[j] = "queued"}) < filethreads
    /\ LET r == process_fastq_rich(files[i])
       IN /\ result' = [result EXCEPT ![i] = MarkSource(r, i)]
          /\ status' = [status EXCEPT ![i] = IF r.exc = "none" THEN "done" ELSE "failed"]
    /\ UNCHANGED <<files, combine, names, dfs, pc, datadf, fastqVars, bamVars, streamVars, pidVars>>

\* The list comprehension passing over a future that holds an exception
CollectNext_skip_failed(st, res, L) ==
    IF st = "done" THEN [pc |-> "collect", dfs |-> Append(L, res.df)]
    ELSE [pc |-> "collect", dfs |-> Append(L, [table |-> TRUE, columns |-> {}, rows |-> <<>>])]

\* What the list comprehension does with the next future of executor.map: its
\* DataFrame joins the list, its exception leaves get_input.
CollectNext(st, res, L) ==
    IF st = "done" THEN [pc |-> "collect", dfs |-> Append(L, res.df)]
    ELSE [pc |-> "failed", dfs |-> L]

\* [out for out in executor.map(...)]: the next result in file order, once there
Collect ==
    /\ pc = "collect"
    /\ Len(dfs) < Len(files)
    /\ LET i == Len(dfs) + 1
       IN /\ status[i] # "queued"
          /\ LET n == CollectNext(status[i], result[i], dfs)
             IN pc' = n.pc /\ dfs' = n.dfs
    /\ UNCHANGED <<files, combine, names, status, result, datadf, fastqVars, bamVars, streamVars, pidVars>>

\* All results are in: combine_dfs, the start times, return datadf
Return ==
    /\ pc = "collect"
    /\ Len(dfs) = Len(files)
    /\ datadf' = StartTime(combine_dfs(dfs, NamesOrFiles, combine))
    /\ pc' = "returned"
    /\ UNCHANGED <<files, combine, names, status, result, dfs, fastqVars, bamVars, streamVars, pidVars>>

Next ==
    \/ \E i \in 1..Len(files) : RunWorker(i)
    \/ Collect
    \/ Return

Spec == Init /\ [][Next]_vars

-----------------------------------------------------------------------------
(* Properties of get_input (Spec).                                         *)

\* The records of a file that have a sequence: the ones an extractor keeps
ValidRecords(file) == {k \in DOMAIN file : file[k].len > 0}
\* The dataset names the caller asked for: names, or the file paths for None
SuppliedNames ==
    IF names.isNone THEN [i \in 1..Len(files) |-> Path(i)] ELSE names.list
Rows == datadf.rows
DatasetValues == {Rows[j].dataset : j \in DOMAIN Rows}
\* The files that zip(dfs, names) pairs with a name
PairedFiles == 1..MinOf(Len(files), Len(SuppliedNames))

\* A call whose names, when given, are as many as the files, and that returned rows
WellFormedCall ==
    /\ Len(SuppliedNames) = Len(files)
    /\ pc = "returned" /\ Rows # <<>>

C2_StartTimeMinimumIsZero ==
    pc = "returned" =>
        /\ "timestamp" \notin datadf.columns
        /\ "start_time" \in datadf.columns
        /\ IF combine = "track"
           THEN \A d \in DatasetValues :
                   Min({Rows[j].start_time : j \in {r \in DOMAIN Rows : Rows[r].dataset = d}}) = 0
           ELSE Rows = <<>> \/ Min({Rows[j].start_time : j \in DOMAIN Rows}) = 0

\* C3: a tracked call whose names list is not as long as the file list fails:
\* it returns no table.  (Stated of the calls whose files all hold a kept
\* record, so that no other failure is due.)
C3_NamesLengthMismatchFails ==
    (/\ combine = "track" /\ ~names.isNone /\ Len(names.list) # Len(files)
     /\ \A i \in DOMAIN files : ValidRecords(files[i]) # {})
        => (pc # "returned" /\ datadf = NoTable)

\* C8: get_input never returns an empty table.
C8_ReturnedTableIsNotEmpty ==
    pc = "returned" => Len(Rows) > 0

\* C10: a table is returned only once every worker has completed, none of them
\* in failure; while a worker has failed, or the call has not returned, the
\* caller has no table at all.
C10_AllWorkersOrNothing ==
    /\ pc = "returned" => /\ datadf.table
                          /\ \A i \in DOMAIN status : status[i] = "done"
    /\ pc # "returned" => datadf = NoTable
    /\ (\E i \in DOMAIN status : status[i] = "failed")
          => (pc # "returned" /\ datadf = NoTable)

\* Witness of C10: the call failed after the rows of an earlier file were collected
C10_Witness ==
    /\ pc = "failed"
    /\ Len(dfs) >= 1 /\ Len(dfs[1].rows) >= 1
    /\ \E i \in DOMAIN status : status[i] = "failed"

-----------------------------------------------------------------------------
(* process_fastq_plain and process_fastq_rich, record by record (SpecFastq) *)

RequiredKeys == {"ch", "start_time", "runid"}
KeyField(k) ==
    IF k = "ch" THEN Field("ch", 7)
    ELSE IF k = "start_time" THEN Field("start_time", 0)
    ELSE Field("runid", "r")
\* The fields of the keys K, in the order runid, ch, start_time
FieldsOf(K) ==
    (IF "runid" \in K THEN <<KeyField("runid")>> ELSE <<>>)
      \o (IF "ch" \in K THEN <<KeyField("ch")>> ELSE <<>>)
      \o (IF "start_time" \in K THEN <<KeyField("start_time")>> ELSE <<>>)
\* The descriptions: every subset of the three keys, and one whose channel
\* field has no '='
FqDescriptions ==
    {Description(FieldsOf(K)) : K \in SUBSET RequiredKeys}
      \cup {Description(<<KeyField("runid"), <<"ch">>, KeyField("start_time")>>)}
FqRecords == [len : 0..MaxSeqLen, desc : FqDescriptions]
\* The files read by the fastq extractors
FastqFiles(maxRecs) == SeqsUpTo(FqRecords, maxRecs)

\* extract_from_fastq with a mean quality that does not raise on no scores
extract_from_fastq_keeps_empty(rec) ==
    IF aveQualRaises(phred_quality(rec))
    THEN [none |-> FALSE, qual |-> 0, len |-> rec.len]
    ELSE [none |-> FALSE, qual |-> aveQual(phred_quality(rec)), len |-> rec.len]

\* extract_from_fastq: (aveQual, len(rec)), or None on ZeroDivisionError
extract_from_fastq(rec) ==
    IF aveQualRaises(phred_quality(rec))
    THEN [none |-> TRUE]
    ELSE [none |-> FALSE, qual |-> aveQual(phred_quality(rec)), len |-> rec.len]

\* pd.DataFrame(data={"lengths": ..., "quals": ...}) of process_fastq_plain
PlainDataFrame(out) ==
    [table   |-> TRUE,
     columns |-> {"lengths", "quals"},
     rows    |-> [i \in DOMAIN out |-> [lengths |-> out[i].len, quals |-> out[i].qual]]]

InitFastq ==
    /\ extractor \in {"plain", "rich"}
    /\ fastq \in FastqFiles(MaxFqRecs)
    /\ pos = 0
    /\ lists = EmptyLists
    /\ output = <<>>
    /\ fpc = "loop"
    /\ fexc = "none"
    /\ fdf = NoTable
    /\ GetIdle
    /\ BamIdle
    /\ StreamIdle
    /\ PidIdle

\* One turn of "for record in SeqIO.parse(inputfastq, 'fastq')" in process_fastq_rich
RichStep ==
    /\ extractor = "rich" /\ fpc = "loop" /\ pos < Len(fastq)
    /\ LET r == RichTry(fastq[pos + 1], lists)
       IN /\ lists' = r.lists
          /\ IF r.exc = "none" \/ RichHandled(r.exc)
             THEN UNCHANGED <<fpc, fexc>>
             ELSE fpc' = "aborted" /\ fexc' = RichRaised(r.exc)
    /\ pos' = pos + 1
    /\ UNCHANGED <<extractor, fastq, output, fdf, getVars, bamVars, streamVars, pidVars>>

\* The loop is over: datadf = pd.DataFrame(...); return datadf
RichReturn ==
    /\ extractor = "rich" /\ fpc = "loop" /\ pos = Len(fastq)
    /\ fdf' = RichDataFrame(lists)
    /\ fpc' = "returned"
    /\ UNCHANGED <<extractor, fastq, pos, lists, output, fexc, getVars, bamVars, streamVars, pidVars>>

\* The next result of executor.map(extract_from_fastq, ...) in
\* process_fastq_plain, kept "if results is not None"
PlainStep ==
    /\ extractor = "plain" /\ fpc = "loop" /\ pos < Len(fastq)
    /\ LET results == extract_from_fastq(fastq[pos + 1])
       IN output' = IF results.none THEN output ELSE Append(output, results)
    /\ pos' = pos + 1
    /\ UNCHANGED <<extractor, fastq, lists, fpc, fexc, fdf, getVars, bamVars, streamVars, pidVars>>

PlainReturn ==
    /\ extractor = "plain" /\ fpc = "loop" /\ pos = Len(fastq)
    /\ fdf' = PlainDataFrame(output)
    /\ fpc' = "returned"
    /\ UNCHANGED <<extractor, fastq, pos, lists, output, fexc, getVars, bamVars, streamVars, pidVars>>

NextFastq == RichStep \/ RichReturn \/ PlainStep \/ PlainReturn

SpecFastq == InitFastq /\ [][NextFastq]_vars

-----------------------------------------------------------------------------
(* Properties of the fastq extractors (SpecFastq).                         *)

\* A record whose description has no field of one of the required keys
LacksKey(rec) ==
    \E key \in RequiredKeys :
        \A i \in DOMAIN Tail(rec.desc) : Tail(rec.desc)[i][1] # key
\* A record whose description has a field without '='
Malformed(rec) == \E i \in DOMAIN Tail(rec.desc) : Len(Tail(rec.desc)[i]) < 2
Consumed == {k \in 1..pos : k \in DOMAIN fastq}

\* C4 as stated: in process_fastq_rich, once a record that lacks one of 'ch',
\* 'start_time', 'runid' has been read, of any length and at any position, the
\* call has aborted and there is no table.
C4_AnyRecordLackingAKeyAborts ==
    (extractor = "rich" /\ \E k \in Consumed : LacksKey(fastq[k]))
        => (fpc = "aborted" /\ fdf = NoTable)

\* C4 amended: in process_fastq_rich, once a record of non-zero length that
\* lacks one of the three keys has been read, at any position, the call has
\* aborted and there is no table, whatever was read before it; a record of zero
\* length is dropped before its description is read and never aborts the call.
C4_NonEmptyRecordLackingAKeyAborts ==
    extractor = "rich" =>
        /\ (\E k \in Consumed : fastq[k].len > 0 /\ LacksKey(fastq[k]))
               => (fpc = "aborted" /\ fdf = NoTable)
        /\ fpc = "aborted"
               => /\ fdf = NoTable
                  /\ fastq[pos].len > 0
                  /\ (LacksKey(fastq[pos]) \/ Malformed(fastq[pos]))

\* Witness of C4: the second record lacks a key and aborts the call after the
\* first one was extracted
C4_Witness ==
    /\ extractor = "rich" /\ fpc = "aborted" /\ fexc = "SystemExit"
    /\ pos = 2 /\ Len(lists.runids) = 1
    /\ LacksKey(fastq[2]) /\ fdf = NoTable

\* C5: in both extractors a record of zero length is dropped without an error,
\* and while the call runs and when it has returned the per-column lists all
\* have the number of non-zero-length records read so far as their length; the
\* returned table has one row per non-zero-length record.
C5_OneRowPerNonEmptyRecord ==
    LET n == Cardinality({k \in Consumed : fastq[k].len > 0})
    IN /\ fpc \in {"loop", "returned"} =>
            /\ extractor = "rich" =>
                  /\ Len(lists.lengths) = n /\ Len(lists.quals) = n
                  /\ Len(lists.channels) = n /\ Len(lists.time_stamps) = n
                  /\ Len(lists.runids) = n
            /\ extractor = "plain" => Len(output) = n
       /\ fpc = "returned" => Len(fdf.rows) = Cardinality(ValidRecords(fastq))
       /\ (\A k \in Consumed : fastq[k].len = 0) => (fpc # "aborted" /\ fexc = "none")

\* Witness of C5: a table of one row returned for a file of two records, one
\* of them of zero length
C5_Witness ==
    /\ fpc = "returned" /\ Len(fastq) = 2
    /\ \E k \in DOMAIN fastq : fastq[k].len = 0
    /\ Len(fdf.rows) = 1

-----------------------------------------------------------------------------
(* process_bam (SpecBam): the reads.                                       *)

\* An alignment as the aligner writes it: the CIGAR operations as pysam's
\* cigartuples (operation, length), the MD tag as its characters, and the edit
\* distance it would write as NM.
\*   0 M (match or mismatch), 1 I (insertion), 2 D (deletion), 4 S (soft clip)
Alignments ==
    {[cigartuples |-> <<<<0, 2>>>>,                     MD |-> <<"2">>,                NM |-> 0],
     [cigartuples |-> <<<<0, 2>>>>,                     MD |-> <<"1", "A", "0">>,      NM |-> 1],
     [cigartuples |-> <<<<0, 1>>, <<1, 1>>, <<0, 1>>>>, MD |-> <<"2">>,                NM |-> 1],
     [cigartuples |-> <<<<0, 1>>, <<2, 1>>, <<0, 1>>>>, MD |-> <<"1", "^", "C", "1">>, NM |-> 1],
     [cigartuples |-> <<<<4, 1>>, <<2, 1>>>>,           MD |-> <<"0", "^", "C", "0">>, NM |-> 1]}

\* The reads: primary, secondary or supplementary, with or without the NM tag
BamReads ==
    {[is_secondary |-> f = "secondary", is_supplementary |-> f = "supplementary",
      has_NM |-> h, cigartuples |-> a.cigartuples, MD |-> a.MD, NM |-> a.NM] :
        <<f, h, a>> \in {"primary", "secondary", "supplementary"} \X BOOLEAN \X Alignments}

RECURSIVE SumSeq(_)
SumSeq(ns) == IF ns = <<>> THEN 0 ELSE Head(ns) + SumSeq(Tail(ns))

\* pysam's read.query_alignment_length: the query bases inside the alignment,
\* those of the M, I, = and X operations
query_alignment_length(read) ==
    SumSeq([i \in DOMAIN read.cigartuples |->
              IF read.cigartuples[i][1] \in {0, 1, 7, 8} THEN read.cigartuples[i][2] ELSE 0])
\* pysam's read.query_length: the soft-clipped bases too
query_length(read) ==
    SumSeq([i \in DOMAIN read.cigartuples |->
              IF read.cigartuples[i][1] \in {0, 1, 4, 7, 8} THEN read.cigartuples[i][2] ELSE 0])
query_qualities(read) == [i \in 1..query_length(read) |-> PhredQ]
query_alignment_qualities(read) == [i \in 1..query_alignment_length(read) |-> PhredQ]

-----------------------------------------------------------------------------
(* process_bam: the code.                                                  *)

MDSeparators == {"0", "1", "2", "3", "4", "5", "6", "7", "8", "9", "^"}

\* re.split('[0-9^]', MDlist): the pieces between the separator characters
RECURSIVE SplitMD(_, _)
SplitMD(md, piece) ==
    IF md = <<>> THEN <<piece>>
    ELSE IF Head(md) \in MDSeparators
         THEN <<piece>> \o SplitMD(Tail(md), <<>>)
         ELSE SplitMD(Tail(md), Append(piece, Head(md)))

\* parse_MD splitting on '[0-9]' alone: the '^' of a deletion stays in its piece
parse_MD_split_on_digits(MDlist) ==
    Cardinality({i \in DOMAIN MDlist : MDlist[i] \notin (MDSeparators \ {"^"})})

\* sum([len(item) for item in re.split('[0-9^]', MDlist)])
parse_MD(MDlist) ==
    LET items == SplitMD(MDlist, <<>>)
    IN SumSeq([i \in DOMAIN items |-> Len(items[i])])

\* sum([item[1] for item in cigartuples if item[0] == 1])
parse_CIGAR(cigartuples) ==
    SumSeq([i \in DOMAIN cigartuples |->
              IF cigartuples[i][1] = 1 THEN cigartuples[i][2] ELSE 0])

\* 100 * (1 - edit_distance / length), kept as the exact fraction
\* 100 * (length - edit_distance) / length
PercentIdentity(edit_distance, length) ==
    [num |-> 100 * (length - edit_distance), den |-> length]

\* get_pID raises ZeroDivisionError on an aligned length of zero, on either path
get_pIDRaises(read) == query_alignment_length(read) = 0
\* get_pID: from the NM tag if present (no KeyError), from MD and CIGAR if not
get_pID(read) ==
    IF read.has_NM
    THEN PercentIdentity(read.NM, query_alignment_length(read))
    ELSE PercentIdentity(parse_MD(read.MD) + parse_CIGAR(read.cigartuples),
                         query_alignment_length(read))

EmptyMetrics == [lengths |-> <<>>, alignedLengths |-> <<>>, quals |-> <<>>,
                 alignedQuals |-> <<>>, mapQ |-> <<>>, pID |-> <<>>]
MapQ == 60

\* The test of the loop of extract_from_bam: "if not read.is_secondary"
Extracted(read) == ~read.is_secondary

\* extract_from_bam: the loop over the reads of one contig from read k on; the
\* tuple of lists, or the exception that escapes (none is caught)
RECURSIVE BamLoop(_, _, _)
BamLoop(reads, k, M) ==
    IF k > Len(reads) THEN [exc |-> "none", out |-> M]
    ELSE LET read == reads[k]
         IN IF ~Extracted(read) THEN BamLoop(reads, k + 1, M)
            ELSE IF aveQualRaises(query_qualities(read))
                 THEN [exc |-> "ZeroDivisionError", out |-> EmptyMetrics]
            ELSE IF aveQualRaises(query_alignment_qualities(read))
                 THEN [exc |-> "ZeroDivisionError", out |-> EmptyMetrics]
            ELSE IF get_pIDRaises(read)
                 THEN [exc |-> "ZeroDivisionError", out |-> EmptyMetrics]
            ELSE BamLoop(reads, k + 1,
                   [lengths        |-> Append(M.lengths, query_length(read)),
                    alignedLengths |-> Append(M.alignedLengths, query_alignment_length(read)),
                    quals          |-> Append(M.quals, aveQual(query_qualities(read))),
                    alignedQuals   |-> Append(M.alignedQuals,
                                              aveQual(query_alignment_qualities(read))),
                    mapQ           |-> Append(M.mapQ, MapQ),
                    pID            |-> Append(M.pID, get_pID(read))])

extract_from_bam(reads) == BamLoop(reads, 1, EmptyMetrics)

\* pd.DataFrame(data={...}) of process_bam: each column the lists of the
\* workers, one after the other
BamDataFrame(out) ==
    LET col(name) == Flatten([i \in DOMAIN out |-> out[i][name]])
    IN [table   |-> TRUE,
        columns |-> {"lengths", "aligned_lengths", "quals", "aligned_quals",
                     "mapQ", "percentIdentity"},
        rows    |-> [i \in 1..Len(col("lengths")) |->
                       [lengths         |-> col("lengths")[i],
                        aligned_lengths |-> col("alignedLengths")[i],
                        quals           |-> col("quals")[i],
                        aligned_quals   |-> col("alignedQuals")[i],
                        mapQ            |-> col("mapQ")[i],
                        percentIdentity |-> col("pID")[i]]]]

\* samfile.mapped of check_bam: the reads of the file, all of them mapped here
Mapped(b) == SumSeq([c \in DOMAIN b |-> Len(b[c])])

\* The alignment files: the reads of each contig
BamFiles(maxContigs, maxReads) == Partitions(BamReads, maxContigs, maxReads)

InitBam ==
    /\ bam \in BamFiles(MaxContigs, MaxReads)
    /\ bstatus = [c \in DOMAIN bam |-> "queued"]
    /\ bresult = [c \in DOMAIN bam |-> NoResult]
    /\ boutput = <<>>
    /\ bpc = "check"
    /\ bexc = "none"
    /\ bdf = NoTable
    /\ GetIdle
    /\ FastqIdle
    /\ StreamIdle
    /\ PidIdle

\* check_bam on an existing, indexed, coordinate-sorted file: sys.exit when not
\* a single read is mapped; then the contigs are handed to the pool
CheckBam ==
    /\ bpc = "check"
    /\ IF Mapped(bam) = 0
       THEN bpc' = "failed" /\ bexc' = "SystemExit"
       ELSE bpc' = "collect" /\ bexc' = bexc
    /\ UNCHANGED <<bam, bstatus, bresult, boutput, bdf, getVars, fastqVars, streamVars, pidVars>>

\* A worker of the pool runs extract_from_bam on contig c
RunContig(c) ==
    /\ bpc = "collect"
    /\ bstatus[c] = "queued"
    /\ LET r == extract_from_bam(bam[c])
       IN /\ bresult' = [bresult EXCEPT ![c] = r]
          /\ bstatus' = [bstatus EXCEPT ![c] = IF r.exc = "none" THEN "done" ELSE "failed"]
    /\ UNCHANGED <<bam, boutput, bpc, bexc, bdf, getVars, fastqVars, streamVars, pidVars>>

\* [results for results in executor.map(extract_from_bam, params)]: the next
\* result in contig order, once there; an exception leaves process_bam
CollectContig ==
    /\ bpc = "collect"
    /\ Len(boutput) < Len(bam)
    /\ LET c == Len(boutput) + 1
       IN /\ bstatus[c] # "queued"
          /\ IF bstatus[c] = "done"
             THEN boutput' = Append(boutput, bresult[c].out) /\ UNCHANGED <<bpc, bexc>>
             ELSE bpc' = "failed" /\ bexc' = bresult[c].exc /\ boutput' = boutput
    /\ UNCHANGED <<bam, bstatus, bresult, bdf, getVars, fastqVars, streamVars, pidVars>>

ReturnBam ==
    /\ bpc = "collect"
    /\ Len(boutput) = Len(bam)
    /\ bdf' = BamDataFrame(boutput)
    /\ bpc' = "returned"
    /\ UNCHANGED <<bam, bstatus, bresult, boutput, bexc, getVars, fastqVars, streamVars, pidVars>>

NextBam ==
    \/ CheckBam
    \/ \E c \in DOMAIN bam : RunContig(c)
    \/ CollectContig
    \/ ReturnBam

SpecBam == InitBam /\ [][NextBam]_vars

-----------------------------------------------------------------------------
(* Properties of process_bam (SpecBam).                                    *)

\* process_bam(bam, threads, readtype) and get_input take no argument by which
\* supplementary alignments could be requested: they never are.
keep_supplementary == FALSE

AllReads == Flatten(bam)
\* The records the alignment extractor is to emit a row for
Eligible(read) ==
    /\ ~read.is_secondary
    /\ (~read.is_supplementary \/ keep_supplementary)

\* C6: the returned table has a row for a record only if the record is a
\* primary alignment, or a supplementary one and those were requested: it has
\* as many rows as the file has such records, none for a secondary alignment
\* and none for a supplementary one that was not requested.
C6_RowsOnlyForPrimaryAlignments ==
    bpc = "returned" =>
        Len(bdf.rows) = Cardinality({k \in DOMAIN AllReads : Eligible(AllReads[k])})

\* C7: a record whose aligned length is zero is skipped and the run goes on:
\* process_bam does not fail over a file for such a record, with an NM tag or
\* without one.
C7_ZeroAlignedLengthIsNotFatal ==
    (\E k \in DOMAIN AllReads : query_alignment_length(AllReads[k]) = 0)
        => (bpc # "failed" /\ bexc # "ZeroDivisionError")

-----------------------------------------------------------------------------
(* stream_fastq_full (SpecStream)                                          *)

StreamRecords == [id : {"a", "b"}, len : 0..MaxSeqLen]
StreamFiles(maxRecs) == SeqsUpTo(StreamRecords, maxRecs)

\* extract_all_from_fastq: (rec.id, len(rec), ave_qual, median_qual), or None
\* when the quality of no scores divides by zero
extract_all_from_fastq(rec) ==
    IF aveQualRaises(phred_quality(rec))
    THEN [none |-> TRUE]
    ELSE [none |-> FALSE, id |-> rec.id, len |-> rec.len,
          ave_qual |-> aveQual(phred_quality(rec)),
          median_qual |-> aveQual(phred_quality(rec))]

InitStream ==
    /\ srecords \in StreamFiles(MaxStreamRecs)
    /\ sthreads \in 1..MaxThreads
    /\ sstatus = [i \in DOMAIN srecords |-> "unsubmitted"]
    /\ sresult = [i \in DOMAIN srecords |-> NoResult]
    /\ yielded = <<>>
    /\ spc = "start"
    /\ GetIdle
    /\ FastqIdle
    /\ BamIdle
    /\ PidIdle

\* The first next() of the generator: the pool is made and executor.map
\* submits one call per record of the file
StartStream ==
    /\ spc = "start"
    /\ sstatus' = [i \in DOMAIN srecords |-> "queued"]
    /\ spc' = "yield"
    /\ UNCHANGED <<srecords, sthreads, sresult, yielded, getVars, fastqVars, bamVars, pidVars>>

\* A worker of the pool runs extract_all_from_fastq on record i.  The pool
\* takes the records in order, sthreads at a time.
StreamWorker(i) ==
    /\ spc = "yield"
    /\ sstatus[i] = "queued"
    /\ Cardinality({j \in 1..(i - 1) : sstatus[j] = "queued"}) < sthreads
    /\ sresult' = [sresult EXCEPT ![i] = extract_all_from_fastq(srecords[i])]
    /\ sstatus' = [sstatus EXCEPT ![i] = "done"]
    /\ UNCHANGED <<srecords, sthreads, yielded, spc, getVars, fastqVars, bamVars, pidVars>>

\* Results handed out as their futures complete (as_completed): a future that
\* is done, the last such one, whatever its place in the file
ResultIndex_as_completed(st, n) ==
    IF \E i \in DOMAIN st : st[i] = "done"
    THEN CHOOSE i \in DOMAIN st : st[i] = "done" /\ \A j \in DOMAIN st : st[j] = "done" => j <= i
    ELSE n + 1

\* The future whose result executor.map's iterator hands out after n results:
\* the next one in the order of submission
ResultIndex(st, n) == n + 1

\* "for results in executor.map(...): yield results": the next result, once
\* its future is done
Yield ==
    /\ spc = "yield"
    /\ Len(yielded) < Len(srecords)
    /\ LET i == ResultIndex(sstatus, Len(yielded))
       IN /\ sstatus[i] = "done"
          /\ yielded' = Append(yielded, sresult[i])
          /\ sstatus' = [sstatus EXCEPT ![i] = "yielded"]
    /\ UNCHANGED <<srecords, sthreads, sresult, spc, getVars, fastqVars, bamVars, pidVars>>

\* No result is left: the generator ends (StopIteration)
StopStream ==
    /\ spc = "yield"
    /\ Len(yielded) = Len(srecords)
    /\ spc' = "done"
    /\ UNCHANGED <<srecords, sthreads, sstatus, sresult, yielded, getVars, fastqVars, bamVars, pidVars>>

NextStream ==
    \/ StartStream
    \/ \E i \in DOMAIN srecords : StreamWorker(i)
    \/ Yield
    \/ StopStream

SpecStream == InitStream /\ [][NextStream]_vars

-----------------------------------------------------------------------------
(* Properties of stream_fastq_full (SpecStream).                           *)

\* C9: whatever order the workers finish in, the k-th item yielded is the
\* result for the k-th record of the file; nothing is yielded beyond the last
\* record, and the generator ends once every record's result has been yielded.
C9_YieldsInSourceOrder ==
    /\ Len(yielded) <= Len(srecords)
    /\ \A k \in DOMAIN yielded : yielded[k] = extract_all_from_fastq(srecords[k])
    /\ spc = "done" => Len(yielded) = Len(srecords)

\* Witness of C9: the first result was yielded with the third record's worker
\* done before the second's, the three records giving three different results
C9_Witness ==
    /\ Len(srecords) = 3 /\ Len(yielded) = 1
    /\ sstatus[3] = "done" /\ sstatus[2] = "queued"
    /\ \A i, j \in 1..3 :
          i # j => extract_all_from_fastq(srecords[i]) # extract_all_from_fastq(srecords[j])

-----------------------------------------------------------------------------
(* get_pID on one alignment record (SpecPID): the records.                 *)
(* An alignment is a sequence of runs of columns: M (query base equal to   *)
(* the reference base), X (query base that differs), I (query base with no *)
(* reference base), D (reference base with no query base).  The record is  *)
(* what the SAM format makes of it: CIGAR, the MD tag and the NM tag.      *)

AlnOps == {"M", "X", "I", "D"}
AlnRuns == [op : AlnOps, n : {1, LongRun}]
\* The alignments of at most maxRuns runs, no two neighbours of the same kind
AlnsUpTo(maxRuns) ==
    {a \in SeqsUpTo(AlnRuns, maxRuns) : \A i \in 1..(Len(a) - 1) : a[i].op # a[i + 1].op}

DigitChars == <<"0", "1", "2", "3", "4", "5", "6", "7", "8", "9">>
\* The decimal digits of n
RECURSIVE Digits(_)
Digits(n) ==
    IF n < 10 THEN <<DigitChars[n + 1]>>
    ELSE Append(Digits(n \div 10), DigitChars[(n % 10) + 1])

\* The CIGAR operation of a column: M and X are both 0 (M), or 7 (=) and 8 (X)
\* for an aligner that tells them apart; I is 1, D is 2
CigarOp(op, extended) ==
    IF op = "M" THEN (IF extended THEN 7 ELSE 0)
    ELSE IF op = "X" THEN (IF extended THEN 8 ELSE 0)
    ELSE IF op = "I" THEN 1
    ELSE 2

\* Neighbouring operations of the same kind are one operation
RECURSIVE MergeCigar(_)
MergeCigar(t) ==
    IF Len(t) < 2 THEN t
    ELSE IF t[1][1] = t[2][1]
         THEN MergeCigar(<<<<t[1][1], t[1][2] + t[2][2]>>>> \o SubSeq(t, 3, Len(t)))
         ELSE <<t[1]>> \o MergeCigar(Tail(t))

\* cigartuples of the alignment, between two soft clips (4) when it is clipped
WriteCigar(runs, extended, clipped) ==
    LET ops == MergeCigar([i \in DOMAIN runs |-> <<CigarOp(runs[i].op, extended), runs[i].n>>])
    IN IF clipped THEN <<<<4, 1>>>> \o ops \o <<<<4, 1>>>> ELSE ops

\* n mismatches in a row: the reference bases, a 0 between two of them
RECURSIVE Mismatches(_)
Mismatches(n) == IF n = 1 THEN <<"A">> ELSE <<"A", "0">> \o Mismatches(n - 1)

\* The MD tag, [0-9]+(([A-Z]|\^[A-Z]+)[0-9]+)*: the count of matching bases,
\* then each mismatch as the reference base and each deletion as ^ and the
\* reference bases, a count (0 if need be) after each; insertions do not show
RECURSIVE WriteMD(_, _)
WriteMD(runs, count) ==
    IF runs = <<>> THEN Digits(count)
    ELSE LET r == Head(runs)
         IN IF r.op = "M" THEN WriteMD(Tail(runs), count + r.n)
            ELSE IF r.op = "I" THEN WriteMD(Tail(runs), count)
            ELSE IF r.op = "X"
                 THEN Digits(count) \o Mismatches(r.n) \o WriteMD(Tail(runs), 0)
            ELSE Digits(count) \o <<"^">> \o [i \in 1..r.n |-> "C"] \o WriteMD(Tail(runs), 0)

\* The NM tag: the edit distance, mismatched plus inserted plus deleted bases
WriteNM(runs) ==
    SumSeq([i \in DOMAIN runs |-> IF runs[i].op = "M" THEN 0 ELSE runs[i].n])

\* The record of an alignment, with all its tags
AlignedRead(runs, extended, clipped) ==
    [is_secondary |-> FALSE, is_supplementary |-> FALSE, has_NM |-> TRUE,
     cigartuples |-> WriteCigar(runs, extended, clipped),
     MD |-> WriteMD(runs, 0), NM |-> WriteNM(runs)]

PidReads(maxRuns) ==
    {AlignedRead(x[1], x[2], x[3]) : x \in AlnsUpTo(maxRuns) \X BOOLEAN \X BOOLEAN}

\* The same record without its NM tag: read.get_tag("NM") raises KeyError
WithoutNM(read) == [read EXCEPT !.has_NM = FALSE]

\* What a call of get_pID leaves: the percent identity, or the exception
Call_get_pID(read) ==
    IF get_pIDRaises(read) THEN [exc |-> "ZeroDivisionError"]
    ELSE [exc |-> "none", pID |-> get_pID(read)]

InitPID ==
    /\ pread \in PidReads(MaxRuns)
    /\ pidTag = NotCalled
    /\ pidDerived = NotCalled
    /\ GetIdle
    /\ FastqIdle
    /\ BamIdle
    /\ StreamIdle

\* get_pID(read) on the record as it is: the try branch, from the NM tag
TagPID ==
    /\ pread # NoRead /\ pidTag = NotCalled
    /\ pidTag' = Call_get_pID(pread)
    /\ UNCHANGED <<pread, pidDerived, getVars, fastqVars, bamVars, streamVars>>

\* get_pID(read) on the record without NM: the except branch, from MD and CIGAR
DerivedPID ==
    /\ pread # NoRead /\ pidDerived = NotCalled
    /\ pidDerived' = Call_get_pID(WithoutNM(pread))
    /\ UNCHANGED <<pread, pidTag, getVars, fastqVars, bamVars, streamVars>>

NextPID == TagPID \/ DerivedPID

SpecPID == InitPID /\ [][NextPID]_vars

-----------------------------------------------------------------------------
(* Properties of get_pID (SpecPID).                                        *)

\* C11: for a record on which both computations give a value, the two percent
\* identities are equal: parse_MD(MD) + parse_CIGAR(cigartuples) is the NM tag,
\* and both values are 100 * (1 - edit distance / L) for the same L.
C11_TagAndDerivedIdentityAgree ==
    (pidTag.exc = "none" /\ pidDerived.exc = "none") =>
        /\ parse_MD(pread.MD) + parse_CIGAR(pread.cigartuples) = pread.NM
        /\ pidTag.pID = pidDerived.pID
        /\ pidTag.pID = PercentIdentity(pread.NM, query_alignment_length(pread))

\* Witness of C11: both computed for a clipped record with a deletion, an
\* insertion and a run of eleven matches (MD starts with the two digits of 11)
C11_Witness ==
    /\ pidTag.exc = "none" /\ pidDerived.exc = "none"
    /\ Len(pread.MD) >= 4 /\ pread.MD[1] = "1" /\ pread.MD[2] = "1"
    /\ \E i \in DOMAIN pread.MD : pread.MD[i] = "^"
    /\ parse_CIGAR(pread.cigartuples) > 0
    /\ pread.cigartuples[1][1] = 4

=============================================================================
